---- MODULE Spec2Model ----
(***************************************************************************)
(* Model of the community feed backend (src/feed): the entity store with   *)
(* its constraints, the like write path of LikeSerializer.create and       *)
(* Like.save, the windowed karma leaderboard of                            *)
(* KarmaTransaction.get_leaderboard and the comment tree of the            *)
(* post-detail read.                                                       *)
(*                                                                         *)
(* Ids are positive naturals, 0 stands for None.  Usernames are sequences  *)
(* of one-character strings; a User row is identified by its (unique)      *)
(* username.  Time is counted in hours.                                    *)
(***************************************************************************)
EXTENDS Integers, Sequences, FiniteSets, TLC

\* ------------------------------------------------------------------ bounds

\* SpecLike: like requests issued, posts and comments that exist.
MaxReq == 2
MaxLikeTargets == 2

\* SpecBoard: hours on the clock when the ledger was written.
MaxBoardNow == 2

\* SpecTree: posts and comments that exist.
MaxTreeRows == 4

\* SpecDelete: like requests issued, posts and comments ever created.
MaxDelReq == 1
MaxDelRows == 3
MaxEditRows == 3

\* ------------------------------------------------------- program constants

PostLikeKarma == 5
CommentLikeKarma == 1
DefaultHours == 24
DefaultLimit == 5

\* ------------------------------------------------------------------ names

\* Raw user_name / author_name values a caller may send.
RawNames == { <<"a">>, <<" ", "A">>, <<"b">> }

IsSpace(ch) == ch = " "

LowerChar(ch) ==
    CASE ch = "A" -> "a"
      [] ch = "B" -> "b"
      [] OTHER -> ch

RECURSIVE LStrip(_)
LStrip(s) ==
    IF s = <<>> THEN <<>>
    ELSE IF IsSpace(Head(s)) THEN LStrip(Tail(s)) ELSE s

RECURSIVE RStrip(_)
RStrip(s) ==
    IF s = <<>> THEN <<>>
    ELSE IF IsSpace(s[Len(s)]) THEN RStrip(SubSeq(s, 1, Len(s) - 1)) ELSE s

Strip(s) == RStrip(LStrip(s))

Lower(s) == [i \in 1..Len(s) |-> LowerChar(s[i])]

\* author_name.strip().lower()
Normalize(name) == Lower(Strip(name))

\* ------------------------------------------------------------------ state

VARIABLES
    users,      \* User rows: set of usernames
    posts,      \* Post rows: [id, author]
    comments,   \* Comment rows: [id, post, parent, author]
    likes,      \* Like rows: [id, user, post, comment]
    karma,      \* KarmaTransaction rows: [id, user, amount, like, created_at]
    nextId,     \* auto-increment primary keys per table
    now,        \* timezone.now(), in hours
    reqs,       \* like requests, in order of arrival
    lb,         \* response of the last get_leaderboard call
    tree        \* response of the last post-detail read

vars == <<users, posts, comments, likes, karma, nextId, now, reqs, lb, tree>>

NoLb == [called |-> FALSE, hours |-> 0, limit |-> 0, now |-> 0, error |-> FALSE,
         rows |-> <<>>, repeat |-> FALSE, prevError |-> FALSE, prevRows |-> <<>>]
NoTree == [called |-> FALSE, post |-> 0, found |-> FALSE, all |-> {},
           comments |-> <<>>]

Init ==
    /\ users = {}
    /\ posts = {}
    /\ comments = {}
    /\ likes = {}
    /\ karma = {}
    /\ nextId = [post |-> 1, comment |-> 1, like |-> 1, karma |-> 1]
    /\ now = 0
    /\ reqs = <<>>
    /\ lb = NoLb
    /\ tree = NoTree

PostIds == {p.id : p \in posts}
CommentIds == {c.id : c \in comments}

PostById(id) == CHOOSE p \in posts : p.id = id
CommentById(id) == CHOOSE c \in comments : c.id = id

\* ------------------------------------------------------- posts and comments

\* PostSerializer.create: get_or_create the author, insert the post.
CreatePost(name, maxRows) ==
    /\ Cardinality(posts) + Cardinality(comments) < maxRows
    /\ users' = users \cup {Normalize(name)}
    /\ posts' = posts \cup {[id |-> nextId.post, author |-> Normalize(name)]}
    /\ nextId' = [nextId EXCEPT !.post = @ + 1]
    /\ UNCHANGED <<comments, likes, karma, now, reqs, lb, tree>>

\* CommentSerializer.create: post must exist, parent is None or any existing
\* comment (its post is not compared with the new comment's post).
CreateComment(name, post, parent, maxRows) ==
    /\ Cardinality(posts) + Cardinality(comments) < maxRows
    /\ post \in PostIds
    /\ parent \in {0} \cup CommentIds
    /\ users' = users \cup {Normalize(name)}
    /\ comments' = comments \cup
          {[id |-> nextId.comment, post |-> post, parent |-> parent,
            author |-> Normalize(name)]}
    /\ nextId' = [nextId EXCEPT !.comment = @ + 1]
    /\ UNCHANGED <<posts, likes, karma, now, reqs, lb, tree>>

\* ------------------------------------------------------------ like requests

Failed == {"invalid", "not_found", "already_liked"}
Terminal == Failed \cup {"created"}

\* Mutant of ConstraintViolation: the unique_comment_like constraint is missing.
ConstraintViolation_NoCommentUnique(rows, user, post, comment) ==
    \/ post # 0 /\ \E l \in rows : l.user = user /\ l.post = post
    \/ ~(post # 0 \/ comment # 0)
    \/ post # 0 /\ comment # 0

\* Like.Meta.constraints: unique_post_like, unique_comment_like (partial
\* unique indexes), like_has_target, like_single_target.
ConstraintViolation(rows, user, post, comment) ==
    \/ post # 0 /\ \E l \in rows : l.user = user /\ l.post = post
    \/ comment # 0 /\ \E l \in rows : l.user = user /\ l.comment = comment
    \/ ~(post # 0 \/ comment # 0)
    \/ post # 0 /\ comment # 0

\* Field validation (the referenced post/comment must exist; the views do the
\* same lookup in get_object) and then LikeSerializer.validate.
LikeValidate(post, comment) ==
    IF (post # 0 /\ post \notin PostIds) \/ (comment # 0 /\ comment \notin CommentIds)
    THEN "not_found"
    ELSE IF post = 0 /\ comment = 0 THEN "invalid"
    ELSE IF post # 0 /\ comment # 0 THEN "invalid"
    ELSE "validated"

\* A like request arrives: serializer.is_valid(), then LikeSerializer.create
\* up to User.objects.get_or_create(username=user_name.strip().lower()).
StartLike(name, post, comment) ==
    /\ Len(reqs) < MaxReq
    /\ LET v == LikeValidate(post, comment) IN
       /\ users' = IF v = "validated" THEN users \cup {Normalize(name)} ELSE users
       /\ reqs' = Append(reqs,
             [user |-> IF v = "validated" THEN Normalize(name) ELSE <<>>,
              post |-> post, comment |-> comment, pc |-> v, likeId |-> 0, karmaId |-> 0])
    /\ UNCHANGED <<posts, comments, likes, karma, nextId, now, lb, tree>>

\* Like.post and Like.comment are foreign keys: the INSERT is rejected with
\* an IntegrityError when the row they name is gone.
LikeForeignKeyViolation(post, comment) ==
    \/ post # 0 /\ post \notin PostIds
    \/ comment # 0 /\ comment \notin CommentIds

\* Mutant of InsertLike: the transaction row is written before the Like INSERT
\* is attempted, so a rejected INSERT leaves it behind.
InsertLike_KarmaFirst(i) ==
    /\ reqs[i].pc = "validated"
    /\ IF ConstraintViolation(likes, reqs[i].user, reqs[i].post, reqs[i].comment)
       THEN /\ reqs' = [reqs EXCEPT ![i].pc = "already_liked"]
            /\ karma' = karma \cup
                  {[id |-> nextId.karma, user |-> reqs[i].user, amount |-> 1,
                    like |-> 0, created_at |-> now]}
            /\ nextId' = [nextId EXCEPT !.karma = @ + 1]
            /\ UNCHANGED likes
       ELSE /\ likes' = likes \cup
                  {[id |-> nextId.like, user |-> reqs[i].user,
                    post |-> reqs[i].post, comment |-> reqs[i].comment]}
            /\ nextId' = [nextId EXCEPT !.like = @ + 1]
            /\ reqs' = [reqs EXCEPT ![i].pc = "like_saved",
                                    ![i].likeId = nextId.like]
            /\ UNCHANGED karma
    /\ UNCHANGED <<users, posts, comments, now, lb, tree>>

\* Like.save: super().save(), the INSERT of the Like row, committed on its
\* own.  An IntegrityError becomes "You have already liked this item.".
InsertLike(i) ==
    /\ reqs[i].pc = "validated"
    /\ IF \/ ConstraintViolation(likes, reqs[i].user, reqs[i].post, reqs[i].comment)
          \/ LikeForeignKeyViolation(reqs[i].post, reqs[i].comment)
       THEN /\ reqs' = [reqs EXCEPT ![i].pc = "already_liked"]
            /\ UNCHANGED <<likes, nextId>>
       ELSE /\ likes' = likes \cup
                  {[id |-> nextId.like, user |-> reqs[i].user,
                    post |-> reqs[i].post, comment |-> reqs[i].comment]}
            /\ nextId' = [nextId EXCEPT !.like = @ + 1]
            /\ reqs' = [reqs EXCEPT ![i].pc = "like_saved",
                                    ![i].likeId = nextId.like]
    /\ UNCHANGED <<users, posts, comments, karma, now, lb, tree>>

\* Mutant of KarmaAmount: the comment branch awards the post amount.
KarmaAmount_AlwaysPost(post, comment) == PostLikeKarma

\* Like.save, is_new branch: amount and recipient of the transaction.
KarmaAmount(post, comment) ==
    IF post # 0 THEN PostLikeKarma ELSE CommentLikeKarma

KarmaRecipient(post, comment) ==
    IF post # 0 THEN PostById(post).author ELSE CommentById(comment).author

\* Like.save: KarmaTransaction.objects.create(...), a second statement.
\* KarmaTransaction.like is a foreign key: when the Like row is gone by now
\* the INSERT raises an IntegrityError, which LikeSerializer.create reports
\* as "You have already liked this item.".
InsertKarma(i) ==
    /\ reqs[i].pc = "like_saved"
    /\ IF \E l \in likes : l.id = reqs[i].likeId
       THEN /\ karma' = karma \cup
                  {[id |-> nextId.karma,
                    user |-> KarmaRecipient(reqs[i].post, reqs[i].comment),
                    amount |-> KarmaAmount(reqs[i].post, reqs[i].comment),
                    like |-> reqs[i].likeId,
                    created_at |-> now]}
            /\ nextId' = [nextId EXCEPT !.karma = @ + 1]
            /\ reqs' = [reqs EXCEPT ![i].pc = "created",
                                    ![i].karmaId = nextId.karma]
       ELSE /\ reqs' = [reqs EXCEPT ![i].pc = "already_liked"]
            /\ UNCHANGED <<karma, nextId>>
    /\ UNCHANGED <<users, posts, comments, likes, now, lb, tree>>

\* Ids a caller may name: None, every existing row, one id that does not exist.
PostIdInputs == {0} \cup PostIds \cup {nextId.post}
CommentIdInputs == {0} \cup CommentIds \cup {nextId.comment}

NextLike ==
    \/ \E name \in RawNames : CreatePost(name, MaxLikeTargets)
    \/ \E name \in RawNames, p \in PostIds, par \in {0} \cup CommentIds :
          CreateComment(name, p, par, MaxLikeTargets)
    \/ \E name \in RawNames, p \in PostIdInputs, c \in CommentIdInputs :
          StartLike(name, p, c)
    \/ \E i \in DOMAIN reqs : InsertLike(i)
    \/ \E i \in DOMAIN reqs : InsertKarma(i)

SpecLike == Init /\ [][NextLike]_vars

\* -------------------------------------------------------------- leaderboard

Min(a, b) == IF a <= b THEN a ELSE b

\* Mutant of Qualifying: created_at__gt instead of created_at__gte.
Qualifying_Strict(cutoff) ==
    {k \in karma : k.user \in users /\ k.created_at > cutoff}

\* User JOIN karma_transactions WHERE created_at >= cutoff_time.
Qualifying(cutoff) ==
    {k \in karma : k.user \in users /\ k.created_at >= cutoff}

RECURSIVE SumAmount(_)
SumAmount(rows) ==
    IF rows = {} THEN 0
    ELSE LET k == CHOOSE x \in rows : TRUE IN k.amount + SumAmount(rows \ {k})

\* GROUP BY user, annotate(karma_24h=Sum('karma_transactions__amount')).
Annotated(cutoff) ==
    {[user |-> u,
      karma_24h |-> SumAmount({k \in Qualifying(cutoff) : k.user = u})] :
        u \in {k.user : k \in Qualifying(cutoff)}}

\* Mutant of InOrder: ascending instead of descending.
InOrder_Ascending(seq) ==
    \A i, j \in DOMAIN seq : i < j => seq[i].karma_24h <= seq[j].karma_24h

\* order_by('-karma_24h'): no second key, rows of equal karma come in the
\* order the database happens to produce.
InOrder(seq) ==
    \A i, j \in DOMAIN seq : i < j => seq[i].karma_24h >= seq[j].karma_24h

Orderings(S) ==
    {seq \in [1..Cardinality(S) -> S] :
        /\ \A i, j \in DOMAIN seq : i # j => seq[i] # seq[j]
        /\ InOrder(seq)}

\* queryset[:limit] for limit >= 0.
SliceTo(seq, limit) == SubSeq(seq, 1, Min(limit, Len(seq)))

\* KarmaTransaction.get_leaderboard(hours, limit), evaluated.  A negative
\* limit makes the slice raise "Negative indexing is not supported.".
GetLeaderboard(hours, limit) ==
    /\ LET same == lb.called /\ lb.hours = hours /\ lb.limit = limit /\ lb.now = now
           head == [called |-> TRUE, hours |-> hours, limit |-> limit, now |-> now,
                    error |-> FALSE, rows |-> <<>>, repeat |-> same,
                    prevError |-> IF same THEN lb.error ELSE FALSE,
                    prevRows |-> IF same THEN lb.rows ELSE <<>>]
       IN IF limit < 0
          THEN lb' = [head EXCEPT !.error = TRUE]
          ELSE \E seq \in Orderings(Annotated(now - hours)) :
                  lb' = [head EXCEPT !.rows = SliceTo(seq, limit)]
    /\ UNCHANGED <<users, posts, comments, likes, karma, nextId, now, reqs, tree>>

\* Time passes: a day, once (the ledger was written within MaxBoardNow hours).
TickDay ==
    /\ now <= MaxBoardNow
    /\ now' = now + DefaultHours
    /\ UNCHANGED <<users, posts, comments, likes, karma, nextId, reqs, lb, tree>>

HoursInputs == {-1, 0, 1, DefaultHours}
LimitInputs == {-1, 0, 1, 2, DefaultLimit}

\* The store of the leaderboard tests: alice, bob and charlie each wrote a
\* post, bob commented on alice's post; the likes below may have been given.
BoardUsers == {<<"a">>, <<"b">>, <<"c">>}
BoardPosts == {[id |-> 1, author |-> <<"a">>], [id |-> 2, author |-> <<"b">>],
               [id |-> 3, author |-> <<"c">>]}
BoardComments == {[id |-> 1, post |-> 1, parent |-> 0, author |-> <<"b">>]}
BoardLikes == << [user |-> <<"c">>, post |-> 1, comment |-> 0],
                 [user |-> <<"a">>, post |-> 2, comment |-> 0],
                 [user |-> <<"a">>, post |-> 3, comment |-> 0],
                 [user |-> <<"a">>, post |-> 0, comment |-> 1] >>

\* Dense primary keys for the likes given (at[i] >= 0), in list order.
Rank(at, i) == Cardinality({j \in 1..i : at[j] >= 0})

\* A store in which each like of BoardLikes was given at hour at[i] (or not
\* at all, at[i] = -1), each with the transaction Like.save wrote for it.
InitBoard ==
    \E t0 \in 0..MaxBoardNow :
    \E at \in [DOMAIN BoardLikes -> -1..t0] :
        /\ users = BoardUsers
        /\ posts = BoardPosts
        /\ comments = BoardComments
        /\ likes = {[id |-> Rank(at, i), user |-> BoardLikes[i].user,
                     post |-> BoardLikes[i].post,
                     comment |-> BoardLikes[i].comment] :
                       i \in {j \in DOMAIN BoardLikes : at[j] >= 0}}
        /\ karma = {[id |-> Rank(at, i),
                     user |-> KarmaRecipient(BoardLikes[i].post, BoardLikes[i].comment),
                     amount |-> KarmaAmount(BoardLikes[i].post, BoardLikes[i].comment),
                     like |-> Rank(at, i),
                     created_at |-> at[i]] :
                       i \in {j \in DOMAIN BoardLikes : at[j] >= 0}}
        /\ nextId = [post |-> 4, comment |-> 2,
                     like |-> Rank(at, Len(BoardLikes)) + 1,
                     karma |-> Rank(at, Len(BoardLikes)) + 1]
        /\ now = t0
        /\ reqs = <<>>
        /\ lb = NoLb
        /\ tree = NoTree

NextBoard ==
    \/ \E h \in HoursInputs, lim \in LimitInputs : GetLeaderboard(h, lim)
    \/ TickDay

SpecBoard == InitBoard /\ [][NextBoard]_vars

\* ------------------------------------------------------------ comment tree

\* Comment.Meta.ordering = ['created_at']: rows in order of creation, which
\* is the order of their ids.
RECURSIVE InCreationOrder(_)
InCreationOrder(rows) ==
    IF rows = {} THEN <<>>
    ELSE LET first == CHOOSE c \in rows : \A d \in rows : c.id <= d.id
         IN <<first>> \o InCreationOrder(rows \ {first})

\* comment.replies: the comments whose parent is this comment, whatever
\* their post.
Replies(c) == {r \in comments : r.parent = c.id}

\* CommentSerializer / RecursiveCommentSerializer: a comment with its
\* replies, each serialized the same way.
RECURSIVE CommentData(_)
CommentData(c) ==
    LET rs == InCreationOrder(Replies(c))
    IN [id |-> c.id, post |-> c.post,
        replies |-> [i \in DOMAIN rs |-> CommentData(rs[i])]]

\* PostSerializer.get_comments on the prefetched all_comments.
GetComments(all) ==
    LET top_level == InCreationOrder({c \in all : c.parent = 0})
    IN [i \in DOMAIN top_level |-> CommentData(top_level[i])]

\* PostViewSet.retrieve: get_object (404 when the post does not exist),
\* all_comments = list(instance.comments.all()), then the serializer.
Retrieve(pk) ==
    /\ IF pk \in PostIds
       THEN LET all == {c \in comments : c.post = pk}
            IN tree' = [called |-> TRUE, post |-> pk, found |-> TRUE,
                        all |-> all, comments |-> GetComments(all)]
       ELSE tree' = [called |-> TRUE, post |-> pk, found |-> FALSE,
                     all |-> {}, comments |-> <<>>]
    /\ UNCHANGED <<users, posts, comments, likes, karma, nextId, now, reqs, lb>>

NextTree ==
    \/ \E name \in RawNames : CreatePost(name, MaxTreeRows)
    \/ \E name \in RawNames, p \in PostIds, par \in {0} \cup CommentIds :
          CreateComment(name, p, par, MaxTreeRows)
    \/ \E pk \in PostIdInputs \ {0} : Retrieve(pk)

SpecTree == Init /\ [][NextTree]_vars

\* ----------------------------------------------------------------- deletion

\* Comment.parent on_delete=CASCADE: the given comments with all their
\* direct and transitive replies.
RECURSIVE WithReplies(_)
WithReplies(rows) ==
    LET more == rows \cup {c \in comments : \E d \in rows : c.parent = d.id}
    IN IF more = rows THEN rows ELSE WithReplies(more)

\* Like.post / Like.comment on_delete=CASCADE.
LikesOn(postIds, commentRows) ==
    {l \in likes : \/ l.post \in postIds
                   \/ \E c \in commentRows : l.comment = c.id}

\* KarmaTransaction.like on_delete=CASCADE.
KarmaOf(likeRows) == {k \in karma : \E l \in likeRows : k.like = l.id}

\* Mutant of DeleteRows: the likes go, their transactions stay.
DeleteRows_KeepKarma(postIds, commentRows) ==
    /\ posts' = {p \in posts : p.id \notin postIds}
    /\ comments' = comments \ commentRows
    /\ likes' = likes \ LikesOn(postIds, commentRows)
    /\ karma' = karma
    /\ UNCHANGED <<users, nextId, now, reqs, lb, tree>>

\* The collected rows are deleted in one transaction.
DeleteRows(postIds, commentRows) ==
    /\ posts' = {p \in posts : p.id \notin postIds}
    /\ comments' = comments \ commentRows
    /\ likes' = likes \ LikesOn(postIds, commentRows)
    /\ karma' = karma \ KarmaOf(LikesOn(postIds, commentRows))
    /\ UNCHANGED <<users, nextId, now, reqs, lb, tree>>

\* PostViewSet destroy: the post, its comments (Comment.post CASCADE) with
\* their replies, the likes on all of them and the likes' transactions.
DeletePost(pk) ==
    /\ pk \in PostIds
    /\ DeleteRows({pk}, WithReplies({c \in comments : c.post = pk}))

\* CommentViewSet destroy: the comment with its replies, their likes and the
\* likes' transactions.
DeleteComment(pk) ==
    /\ pk \in CommentIds
    /\ DeleteRows({}, WithReplies({CommentById(pk)}))

\* Posts and comments created so far.
RowsCreated == (nextId.post - 1) + (nextId.comment - 1)

\* Names sent under SpecDelete: one author, two users who like.
DelAuthors == { <<"a">> }
DelLikers == { <<" ", "A">>, <<"b">> }

NextDelete ==
    \/ \E name \in DelAuthors :
          RowsCreated < MaxDelRows /\ CreatePost(name, MaxDelRows)
    \/ \E name \in DelAuthors, p \in PostIds, par \in {0} \cup CommentIds :
          RowsCreated < MaxDelRows /\ CreateComment(name, p, par, MaxDelRows)
    \/ \E name \in DelLikers, p \in PostIds :
          Len(reqs) < MaxDelReq /\ StartLike(name, p, 0)
    \/ \E name \in DelLikers, c \in CommentIds :
          Len(reqs) < MaxDelReq /\ StartLike(name, 0, c)
    \/ \E i \in DOMAIN reqs : InsertLike(i)
    \/ \E i \in DOMAIN reqs : InsertKarma(i)
    \/ \E pk \in PostIds : DeletePost(pk)
    \/ \E pk \in CommentIds : DeleteComment(pk)

SpecDelete == Init /\ [][NextDelete]_vars

\* ------------------------------------------------------------ comment edits

\* CommentViewSet update (ModelViewSet, CommentSerializer): post and parent
\* are writable fields; post must name an existing post, parent is None or
\* any existing comment, the comment itself included, and neither is compared
\* with the other. The author is read-only and author_name is not a model
\* field, so the author stays.
UpdateComment(pk, post, parent) ==
    /\ pk \in CommentIds
    /\ post \in PostIds
    /\ parent \in {0} \cup CommentIds
    /\ comments' = (comments \ {CommentById(pk)}) \cup
          {[CommentById(pk) EXCEPT !.post = post, !.parent = parent]}
    /\ UNCHANGED <<users, posts, likes, karma, nextId, now, reqs, lb, tree>>

NextEdit ==
    \/ \E name \in RawNames : RowsCreated < MaxEditRows /\ CreatePost(name, MaxEditRows)
    \/ \E name \in RawNames, p \in PostIds, par \in {0} \cup CommentIds :
          RowsCreated < MaxEditRows /\ CreateComment(name, p, par, MaxEditRows)
    \/ \E pk \in CommentIds, p \in PostIds, par \in {0} \cup CommentIds :
          UpdateComment(pk, p, par)
    \/ \E pk \in CommentIds : DeleteComment(pk)

SpecEdit == Init /\ [][NextEdit]_vars

\* ----------------------------------------------------- claims on SpecLike

\* Requests that passed validation and carry the same (user, target) as i.
PassedValidation(i) == reqs[i].pc \notin {"invalid", "not_found"}

SameKey(i) ==
    {j \in DOMAIN reqs :
        /\ PassedValidation(j)
        /\ reqs[j].user = reqs[i].user
        /\ reqs[j].post = reqs[i].post
        /\ reqs[j].comment = reqs[i].comment}

LikeRowsOf(i) ==
    {l \in likes : /\ l.user = reqs[i].user
                   /\ l.post = reqs[i].post
                   /\ l.comment = reqs[i].comment}

\* C1: for like requests by the same user on the same target, however their
\* steps interleave, there is never more than one Like row for that
\* (user, target), and once all of them have returned exactly one has
\* succeeded, every other one has returned AlreadyLiked, and exactly one Like
\* row and exactly one KarmaTransaction row exist for that (user, target).
C1_OneLikePerUserTarget ==
    \A i \in DOMAIN reqs :
        PassedValidation(i) =>
            /\ Cardinality(LikeRowsOf(i)) <= 1
            /\ (\A j \in SameKey(i) : reqs[j].pc \in Terminal) =>
                  /\ Cardinality({j \in SameKey(i) : reqs[j].pc = "created"}) = 1
                  /\ \A j \in SameKey(i) : reqs[j].pc \in {"created", "already_liked"}
                  /\ Cardinality(LikeRowsOf(i)) = 1
                  /\ Cardinality({k \in karma :
                        \E l \in LikeRowsOf(i) : k.like = l.id}) = 1

\* Two requests with one key have both returned, and the one that arrived
\* first lost: they overlapped.
C1_Witness ==
    \E i, j \in DOMAIN reqs :
        /\ i < j
        /\ j \in SameKey(i)
        /\ PassedValidation(i)
        /\ reqs[i].pc = "already_liked"
        /\ reqs[j].pc = "created"

\* C2: in every persisted state a Like row exists if and only if its
\* KarmaTransaction row exists.
C2_LikeIffKarma ==
    /\ \A l \in likes : \E k \in karma : k.like = l.id
    /\ \A k \in karma : \E l \in likes : l.id = k.like

\* C3: every successful like has exactly one KarmaTransaction, and every
\* KarmaTransaction belongs to one Like, credits the author of the liked
\* post or comment, and amounts to 5 for a post and 1 for a comment.
C3_KarmaMatchesLike ==
    /\ \A i \in DOMAIN reqs :
          reqs[i].pc = "created" =>
              Cardinality({k \in karma : k.like = reqs[i].likeId}) = 1
    /\ \A l \in likes : Cardinality({k \in karma : k.like = l.id}) <= 1
    /\ \A k \in karma :
          \E l \in likes :
              /\ l.id = k.like
              /\ l.post # 0 =>
                    /\ k.amount = 5
                    /\ \E p \in posts : p.id = l.post /\ p.author = k.user
              /\ l.post = 0 =>
                    /\ k.amount = 1
                    /\ \E c \in comments : c.id = l.comment /\ c.author = k.user

\* An author has liked their own post and a comment has been liked.
C3_Witness ==
    /\ \E i \in DOMAIN reqs :
          /\ reqs[i].pc = "created"
          /\ reqs[i].post # 0
          /\ \E p \in posts : p.id = reqs[i].post /\ p.author = reqs[i].user
    /\ \E i \in DOMAIN reqs : reqs[i].pc = "created" /\ reqs[i].comment # 0

JustFailed(i) ==
    /\ reqs'[i].pc \in Failed
    /\ ~(i \in DOMAIN reqs /\ reqs[i].pc \in Failed)

\* C4: the step in which a like request fails (duplicate, both or neither
\* target, target not found) leaves the Like rows and the KarmaTransaction
\* rows as they were, and the failing request has written no row before.
C4_FailureWritesNothing ==
    [][\A i \in DOMAIN reqs' :
          JustFailed(i) =>
              /\ likes' = likes
              /\ karma' = karma
              /\ reqs'[i].likeId = 0
              /\ reqs'[i].karmaId = 0]_vars

\* A duplicate has been rejected while the first like's rows are in place.
C4_Witness ==
    /\ \E i \in DOMAIN reqs : reqs[i].pc = "already_liked"
    /\ likes # {}
    /\ karma # {}

\* ---------------------------------------------------- claims on SpecBoard

\* The transactions credited to user u at or after the cutoff of the call
\* recorded in lb.
InWindow(u) ==
    {k \in karma : k.user = u /\ k.created_at >= lb.now - lb.hours}

RECURSIVE AmountsUpTo(_, _)
AmountsUpTo(rows, n) ==
    IF n = 0 THEN 0
    ELSE AmountsUpTo(rows, n - 1)
         + (IF \E k \in rows : k.id = n
            THEN (CHOOSE k \in rows : k.id = n).amount ELSE 0)

WindowKarma(u) == AmountsUpTo(InWindow(u), nextId.karma)

Listed == {lb.rows[i].user : i \in DOMAIN lb.rows}

\* C5: for a positive window (24 hours in particular) each listed user's
\* karma is the sum of the amounts of exactly the transactions credited to
\* them with created_at >= now - window, and there is at least one of them.
C5_WindowedSum ==
    (lb.called /\ ~lb.error /\ lb.hours > 0) =>
        \A i \in DOMAIN lb.rows :
            /\ InWindow(lb.rows[i].user) # {}
            /\ lb.rows[i].karma_24h = WindowKarma(lb.rows[i].user)

\* A 24-hour call lists a user with one transaction older than the cutoff
\* and one exactly at it, and leaves out a user whose transactions are all
\* older.
C5_Witness ==
    /\ lb.called /\ ~lb.error
    /\ lb.hours = DefaultHours /\ lb.limit = DefaultLimit
    /\ \E i \in DOMAIN lb.rows :
          /\ \E k \in karma : /\ k.user = lb.rows[i].user
                              /\ k.created_at < lb.now - lb.hours
          /\ \E k \in karma : /\ k.user = lb.rows[i].user
                              /\ k.created_at = lb.now - lb.hours
    /\ \E k \in karma : k.user \notin Listed /\ InWindow(k.user) = {}

\* C6: with limit > 0 the result has at most limit entries, lists no user
\* twice and none without a qualifying transaction, is in non-increasing
\* order of windowed karma, no unlisted qualifying user has more windowed
\* karma than a listed one, and all qualifying users are listed when there
\* are at most limit of them.
C6_TopK ==
    (lb.called /\ ~lb.error /\ lb.limit > 0) =>
        LET qualifying == {u \in users : InWindow(u) # {}} IN
        /\ Len(lb.rows) <= lb.limit
        /\ \A i, j \in DOMAIN lb.rows : i # j => lb.rows[i].user # lb.rows[j].user
        /\ Listed \subseteq qualifying
        /\ \A i, j \in DOMAIN lb.rows :
              i < j => WindowKarma(lb.rows[i].user) >= WindowKarma(lb.rows[j].user)
        /\ \A u \in qualifying \ Listed : \A v \in Listed :
              WindowKarma(u) <= WindowKarma(v)
        /\ Cardinality(qualifying) <= lb.limit => Listed = qualifying

\* Three users qualify with different karma among them and two are listed.
C6_Witness ==
    /\ lb.called /\ ~lb.error
    /\ lb.limit = 2 /\ Len(lb.rows) = 2
    /\ Cardinality({u \in users : InWindow(u) # {}}) = 3
    /\ WindowKarma(lb.rows[1].user) > WindowKarma(lb.rows[2].user)

\* C7: two calls with identical ledger, now, window and limit return the
\* identical sequence of entries (stated for positive window and limit, the
\* calls that rank users; the ledger does not change under SpecBoard).
C7_RepeatedCallsAgree ==
    (lb.called /\ lb.repeat /\ lb.hours > 0 /\ lb.limit > 0) =>
        /\ lb.error = lb.prevError
        /\ lb.rows = lb.prevRows

\* C8: a call with window <= 0 or limit <= 0 raises no error and returns an
\* empty result.
C8_NonPositiveIsEmpty ==
    (lb.called /\ (lb.hours <= 0 \/ lb.limit <= 0)) =>
        /\ ~lb.error
        /\ lb.rows = <<>>

\* ----------------------------------------------------- claims on SpecTree

\* The nodes of a forest, parents before their replies.
RECURSIVE Flatten(_)
Flatten(nodes) ==
    IF nodes = <<>> THEN <<>>
    ELSE <<Head(nodes).id>> \o Flatten(Head(nodes).replies) \o Flatten(Tail(nodes))

Occurrences(seq, x) == Cardinality({i \in DOMAIN seq : seq[i] = x})

\* C9: the tree returned for a post holds each of the N comments stored for
\* that post exactly once and no comment of another post, N nodes in all.
C9_TreeHoldsEachCommentOnce ==
    (tree.called /\ tree.found) =>
        LET ids == Flatten(tree.comments) IN
        /\ Len(ids) = Cardinality(tree.all)
        /\ \A c \in tree.all : Occurrences(ids, c.id) = 1
        /\ \A i \in DOMAIN ids : \E c \in tree.all : c.id = ids[i]

\* C10: a comment of the post whose parent is set but is not among the
\* comments fetched for the post is a root of the post's tree.
C10_OrphanIsRoot ==
    (tree.called /\ tree.found) =>
        \A c \in tree.all :
            (c.parent # 0 /\ ~\E d \in tree.all : d.id = c.parent) =>
                \E i \in DOMAIN tree.comments : tree.comments[i].id = c.id

\* --------------------------------------------------- claims on SpecDelete

\* Every row's references name rows that exist.
ReferencesExist(ps, cs, ls, ks) ==
    /\ \A c \in cs :
          /\ \E p \in ps : p.id = c.post
          /\ c.parent # 0 => \E d \in cs : d.id = c.parent
    /\ \A l \in ls :
          /\ l.post # 0 => \E p \in ps : p.id = l.post
          /\ l.comment # 0 => \E c \in cs : c.id = l.comment
    /\ \A k \in ks : \E l \in ls : l.id = k.like

C13_AlreadyLikedMeansDuplicate ==
    [][\A i \in DOMAIN reqs :
          (reqs[i].pc # "already_liked" /\ reqs'[i].pc = "already_liked")
              => LikeRowsOf(i) # {}]_vars

\* ----------------------------------------------------- claims on SpecEdit

\* Following parent links from comment id for at most fuel steps reaches a
\* comment without parent.
RECURSIVE ReachesRoot(_, _)
ReachesRoot(id, fuel) ==
    IF id \notin CommentIds \/ fuel = 0 THEN FALSE
    ELSE IF CommentById(id).parent = 0 THEN TRUE
    ELSE ReachesRoot(CommentById(id).parent, fuel - 1)

\* C12: after any sequence of comment creations, updates and deletions the
\* comments of each post form a forest: a comment's parent, if set, is a
\* comment of the same post, and the parent links from every comment end at
\* a comment without parent (no comment is its own ancestor).
C12_CommentsFormForest ==
    \A c \in comments :
        /\ c.parent # 0 => \E d \in comments : d.id = c.parent /\ d.post = c.post
        /\ ReachesRoot(c.id, Cardinality(comments))

====
